---- MODULE Spec2Model ----
(***************************************************************************)
(* A model of check_versions.py, the interactive package version manager:  *)
(* the pip invoker, the description fetcher and its thread pool, the       *)
(* inventory builder, backup / update / restore, requirements filtering,   *)
(* the version table and the menu of main().                               *)
(*                                                                         *)
(* Strings that the program inspects character by character (package       *)
(* names, requirement lines) are sequences of code points; every other     *)
(* string is a TLA+ string.                                                *)
(***************************************************************************)
EXTENDS Integers, Sequences, FiniteSets, TLC

\* ------------------------------------------------------------------ bounds
\* longest list `pip list` reports in a run of main()
MaxPkgs == 2
\* largest explicit max_workers besides the default
MaxWorkers == 2
\* timestamps (seconds) the clock may show when a backup is written
MaxTime == 2

\* ------------------------------------------------------- program constants
\* def get_package_descriptions_parallel(packages, max_workers=10)
DefaultMaxWorkers == 10
Sentinel == "No description available"

\* ------------------------------------------------------------------- data
\* "a", "B": lower-cased order and code point order disagree
PkgNames == { <<97>>, <<66>> }
Versions == { "1.0" }
Summaries == { "d1" }

\* Python call results: a value, None, or a raised exception
Return(v) == [raised |-> FALSE, none |-> FALSE, value |-> v]
ReturnNone == [raised |-> FALSE, none |-> TRUE, value |-> <<>>]
Raise(e) == [raised |-> TRUE, none |-> FALSE, value |-> e]

Range(s) == { s[i] : i \in 1..Len(s) }

RECURSIVE SeqsUpTo(_, _)
SeqsUpTo(S, n) ==
    IF n = 0 THEN { <<>> }
    ELSE LET shorter == SeqsUpTo(S, n - 1)
         IN  shorter \cup { Append(s, x) : s \in { t \in shorter : Len(t) = n - 1 }, x \in S }

\* what the child process `python -m pip ...` can do: exit 0 with some stdout,
\* exit nonzero (CalledProcessError), or fail in subprocess.run itself
\* (OSError when the interpreter cannot be started, UnicodeDecodeError ...)
\* stdout of `pip show`: nothing, no Summary line, a Summary line without
\* text ('Summary:'), a Summary line with text
ShowStdouts ==
    { <<>> }
    \cup { << [key |-> "Name: ", rest |-> "n"] >> }
    \cup { << [key |-> "Name: ", rest |-> "n"], [key |-> "Summary:", rest |-> ""] >> }
    \cup { << [key |-> "Name: ", rest |-> "n"], [key |-> "Summary: ", rest |-> d] >> : d \in Summaries }
ShowOutcomes ==
    { [kind |-> "stdout", out |-> o] : o \in ShowStdouts }
    \cup { [kind |-> "exit_nonzero", out |-> <<>>], [kind |-> "os_error", out |-> <<>>] }

\* run_pip_command: only CalledProcessError is caught
run_pip_command(o) ==
    CASE o.kind = "stdout" -> Return(o.out)
      [] o.kind = "exit_nonzero" -> ReturnNone
      [] OTHER -> Raise("OSError")

\* get_package_description: first line starting with 'Summary: ', else sentinel
get_package_description(o) ==
    LET output == run_pip_command(o) IN
    IF output.raised THEN output
    ELSE IF (~output.none) /\ output.value # <<>>
         THEN LET hits == { i \in 1..Len(output.value) : output.value[i].key = "Summary: " }
              IN  IF hits # {}
                  THEN Return(output.value[CHOOSE i \in hits : \A j \in hits : i <= j].rest)
                  ELSE Return(Sentinel)
         ELSE Return(Sentinel)

\* ------------------------------------------------------------------- JSON
\* A JSON text is modelled by its tokens: whether it is well formed, and the
\* array of objects, each the sequence of <<key, value>> pairs in the order
\* the encoder wrote them. A dict is a function from its keys.
KeyOrder == << "name", "version", "latest_version", "latest_filetype", "description" >>

JsonObject(d) ==
    LET ks == SelectSeq(KeyOrder, LAMBDA k : k \in DOMAIN d)
    IN  [j \in 1..Len(ks) |-> << ks[j], d[ks[j]] >>]

\* json.dump(packages, f, indent=4)
JsonDump(list) == [wellformed |-> TRUE, empty |-> FALSE, objs |-> [i \in 1..Len(list) |-> JsonObject(list[i])]]

\* a text that is no JSON document, and the empty text
Malformed == [wellformed |-> FALSE, empty |-> FALSE, objs |-> <<>>]
EmptyText == [wellformed |-> FALSE, empty |-> TRUE, objs |-> <<>>]

JsonDict(o) ==
    [k \in { o[j][1] : j \in 1..Len(o) } |->
        o[CHOOSE j \in 1..Len(o) : o[j][1] = k /\ \A l \in 1..Len(o) : o[l][1] = k => l <= j][2]]

\* json.loads: JSONDecodeError on a malformed text
JsonLoads(text) ==
    IF text.wellformed
    THEN Return([i \in 1..Len(text.objs) |-> JsonDict(text.objs[i])])
    ELSE Raise("JSONDecodeError")

\* ---------------------------------------------------------------- strings
\* str.lower() on code points: 'A'..'Z' (65..90) to 'a'..'z'
Lower(s) == [i \in 1..Len(s) |-> IF s[i] >= 65 /\ s[i] <= 90 THEN s[i] + 32 ELSE s[i]]

\* s < t for Python strings: lexicographic on code points
RECURSIVE StrLess(_, _)
StrLess(s, t) ==
    IF t = <<>> THEN FALSE
    ELSE IF s = <<>> THEN TRUE
    ELSE IF s[1] # t[1] THEN s[1] < t[1]
    ELSE StrLess(Tail(s), Tail(t))

\* a sort key that keeps the letter case
SortKeyRaw(pkg) == pkg.name

\* the key of sorted(all_packages, key=lambda x: x['name'].lower())
SortKey(pkg) == Lower(pkg.name)

\* sorted(): stable, by SortKey
RECURSIVE Insert(_, _)
Insert(sorted, pkg) ==
    IF sorted = <<>> THEN << pkg >>
    ELSE LET last == sorted[Len(sorted)] IN
         IF StrLess(SortKey(pkg), SortKey(last))
         THEN Append(Insert(SubSeq(sorted, 1, Len(sorted) - 1), pkg), last)
         ELSE Append(sorted, pkg)

RECURSIVE Sorted(_)
Sorted(list) ==
    IF list = <<>> THEN <<>>
    ELSE Insert(Sorted(SubSeq(list, 1, Len(list) - 1)), list[Len(list)])

\* outdated_map = {pkg['name']: pkg for pkg in outdated}: the last entry wins
OutdatedMap(outdated) ==
    [n \in { outdated[i].name : i \in 1..Len(outdated) } |->
        outdated[CHOOSE i \in 1..Len(outdated) :
                    outdated[i].name = n /\ \A j \in 1..Len(outdated) : outdated[j].name = n => j <= i]]

Description(pkg) == IF "description" \in DOMAIN pkg THEN pkg.description ELSE Sentinel

OutdatedRow(pkg, outdated_map) ==
    [name |-> pkg.name, current |-> pkg.version, latest |-> outdated_map[pkg.name].latest_version,
     status |-> "Outdated", description |-> Description(pkg)]

UpToDateRow(pkg) ==
    [name |-> pkg.name, current |-> pkg.version, latest |-> pkg.version,
     status |-> "Up to date", description |-> Description(pkg)]

\* display_version_table: the rows added to the table, in order
display_version_table(all_packages, outdated_map) ==
    IF all_packages = <<>> THEN <<>>
    ELSE LET sorted_packages == Sorted(all_packages)
             outdated_packages == SelectSeq(sorted_packages, LAMBDA p : p.name \in DOMAIN outdated_map)
             uptodate_packages == SelectSeq(sorted_packages, LAMBDA p : p.name \notin DOMAIN outdated_map)
         IN  [i \in 1..Len(outdated_packages) |-> OutdatedRow(outdated_packages[i], outdated_map)]
             \o [i \in 1..Len(uptodate_packages) |-> UpToDateRow(uptodate_packages[i])]

\* ----------------------------------------------------------- requirements
IsSpace(c) == c \in { 32, 9, 10, 13 }
IsAlnum(c) == (c >= 48 /\ c <= 57) \/ (c >= 65 /\ c <= 90) \/ (c >= 97 /\ c <= 122)
\* characters of a project name: letters, digits, '-', '_', '.'
IsNameChar(c) == IsAlnum(c) \/ c \in { 45, 95, 46 }
\* characters of a version: letters, digits, '.', '*', '+', '!'
IsVersionChar(c) == IsAlnum(c) \/ c \in { 46, 42, 43, 33 }

RECURSIVE LStrip(_)
LStrip(s) == IF s # <<>> /\ IsSpace(s[1]) THEN LStrip(Tail(s)) ELSE s

RECURSIVE RStrip(_)
RStrip(s) == IF s # <<>> /\ IsSpace(s[Len(s)]) THEN RStrip(SubSeq(s, 1, Len(s) - 1)) ELSE s

\* str.strip()
Strip(s) == RStrip(LStrip(s))

\* line.startswith('#')
StartsWithHash(line) == line # <<>> /\ line[1] = 35

\* the length of the longest prefix of s made of name characters
RECURSIVE NamePrefixLen(_)
NamePrefixLen(s) == IF s # <<>> /\ IsNameChar(s[1]) THEN 1 + NamePrefixLen(Tail(s)) ELSE 0

\* the length of the longest prefix of s made of version characters
RECURSIVE VersionPrefixLen(_)
VersionPrefixLen(s) == IF s # <<>> /\ IsVersionChar(s[1]) THEN 1 + VersionPrefixLen(Tail(s)) ELSE 0

Drop(s, n) == SubSeq(s, n + 1, Len(s))

\* the comparison operators of a version specifier: == >= <= != ~= > <
SpecifierOps == { <<61, 61>>, <<62, 61>>, <<60, 61>>, <<33, 61>>, <<126, 61>>, <<62>>, <<60>> }

\* a version clause: operator, optional spaces, a version, nothing after it
IsSpecifier(s) ==
    \E op \in SpecifierOps :
        /\ Len(s) >= Len(op)
        /\ SubSeq(s, 1, Len(op)) = op
        /\ LET v == LStrip(Drop(s, Len(op)))
           IN  v # <<>> /\ VersionPrefixLen(v) = Len(v)

\* packaging.requirements.Requirement(text), for requirements of the form
\* name[constraint]: the name, then nothing or one version clause;
\* anything else is an InvalidRequirement
Requirement(text) ==
    LET n == NamePrefixLen(text)
        name == SubSeq(text, 1, n)
        rest == LStrip(Drop(text, n))
    IN  IF n > 0 /\ IsAlnum(name[1]) /\ IsAlnum(name[n]) /\ (rest = <<>> \/ IsSpecifier(rest))
        THEN Return([name |-> name, specifier |-> rest])
        ELSE Raise("InvalidRequirement")

\* parse_requirements_file: any exception (unreadable file, invalid line)
\* is caught and the whole result is []
parse_requirements_file(file) ==
    IF ~file.readable THEN <<>>
    ELSE LET kept == SelectSeq(file.lines, LAMBDA line : Strip(line) # <<>> /\ ~StartsWithHash(line))
             reqs == [i \in 1..Len(kept) |-> Requirement(Strip(kept[i]))]
         IN  IF \E i \in 1..Len(kept) : reqs[i].raised
             THEN <<>>
             ELSE [i \in 1..Len(kept) |-> reqs[i].value]

\* required_names = {pkg.name for pkg in required_packages}
RequiredNames(required_packages) == { required_packages[i].name : i \in 1..Len(required_packages) }

\* a filter that compares the names as written
FilterRequiredExact(pkgs, required_names) ==
    SelectSeq(pkgs, LAMBDA pkg : pkg.name \in required_names)

\* [pkg for pkg in pkgs if pkg['name'].lower() in {name.lower() for name in required_names}]
FilterRequired(pkgs, required_names) ==
    SelectSeq(pkgs, LAMBDA pkg : Lower(pkg.name) \in { Lower(name) : name \in required_names })

\* ------------------------------------------------------------------ state
VARIABLES
    pc,                \* where main() is
    scope,             \* answers['scope']
    site,              \* the environment: what is installed, as pip would list it
    requirements_file, \* the requirements file chosen, as read from disk
    required_names,    \* check_project_packages: required_names
    inflight,          \* pip child processes of the main thread not yet exited
    packages,          \* get_all_packages: packages; main: all_packages
    max_workers,       \* the pool's max_workers (0: no pool)
    threads,           \* worker threads the pool has started
    futures,           \* the futures, in submission order
    descriptions,      \* get_package_descriptions_parallel: descriptions
    returned,          \* the mapping it returned, {} before it returns
    outdated,          \* main: outdated
    table,             \* the rows of the table printed
    action,            \* action_answers['action']
    disk,              \* package_backups/: timestamp of the file name -> text
    written,           \* for each file create_backup wrote: the records it was given
    backup_file,       \* what create_backup returned
    requests,          \* the pip install command lines issued, in order
    idx,               \* position of the update / restore loop
    chosen,            \* backup_choice['backup']
    restored,          \* restore_packages: packages
    restore_result,    \* what restore_packages returned
    fetches,           \* history: calls of get_package_description started
    req_entries        \* history: the entries the requirements file was written from

vars == << pc, scope, site, requirements_file, required_names, inflight, packages, max_workers,
           threads, futures, descriptions, returned, outdated, table, action, disk, written,
           backup_file, requests, idx, chosen, restored, restore_result, fetches, req_entries >>

\* variables of the description fetch
poolVars == << max_workers, threads, futures, descriptions, returned >>
\* variables of backup, update and restore
batchVars == << disk, written, backup_file, requests, idx, chosen, restored, restore_result >>
\* history variables
histVars == << fetches, req_entries >>

EmptyMap == [n \in {} |-> Sentinel]
NoFile == [readable |-> FALSE, lines |-> <<>>]

\* ------------------------------------------------------------ environment
SiteRecords == { [name |-> n, version |-> v] : n \in PkgNames, v \in Versions }
SiteLists == SeqsUpTo(SiteRecords, MaxPkgs)

\* the limits the pool is exercised with: small ones, and the default
WorkerLimits == (1..MaxWorkers) \cup { DefaultMaxWorkers }

\* stdout of `pip list --format=json`: the site, garbage, or nothing
ListOutcomes(s) ==
    { [kind |-> "stdout", out |-> t] : t \in { JsonDump(s), Malformed, EmptyText } }
    \cup { [kind |-> "exit_nonzero", out |-> EmptyText], [kind |-> "os_error", out |-> EmptyText] }

\* the subsequence of s at the positions in keep
RECURSIVE SubList(_, _)
SubList(s, keep) ==
    IF s = <<>> THEN <<>>
    ELSE LET front == SubList(SubSeq(s, 1, Len(s) - 1), keep)
         IN  IF Len(s) \in keep THEN Append(front, s[Len(s)]) ELSE front

LatestVersion == "2.0"
AsOutdated(p) ==
    [name |-> p.name, version |-> p.version, latest_version |-> LatestVersion, latest_filetype |-> "wheel"]

\* what `pip list --outdated` may report of a site: any part of it
OutdatedLists(s) ==
    { LET part == SubList(s, keep) IN [i \in 1..Len(part) |-> AsOutdated(part[i])] :
        keep \in SUBSET (1..Len(s)) }

OutdatedOutcomes(s) ==
    { [kind |-> "stdout", out |-> t] : t \in { JsonDump(l) : l \in OutdatedLists(s) } \cup { Malformed } }
    \cup { [kind |-> "exit_nonzero", out |-> EmptyText], [kind |-> "os_error", out |-> EmptyText] }

\* pip install: the output is not read, only success or failure
InstallOutcomes ==
    { [kind |-> "stdout", out |-> EmptyText], [kind |-> "exit_nonzero", out |-> EmptyText],
      [kind |-> "os_error", out |-> EmptyText] }

\* ------------------------------------------------------------------- menu
\* main: the scope prompt; None (the prompt was aborted) returns
AskScope ==
    /\ pc = "scope"
    /\ \E answer \in { "Project Libraries", "Global Libraries", "aborted" } :
        /\ scope' = answer
        /\ pc' = CASE answer = "Project Libraries" -> "find_requirements"
                   [] answer = "Global Libraries" -> "list_call"
                   [] OTHER -> "exit"
    /\ UNCHANGED << site, requirements_file, required_names, inflight, packages, outdated, table, action >>
    /\ UNCHANGED << poolVars, batchVars >>
    /\ UNCHANGED histVars

\* A requirements file is written from entries, one per line:
\*   req               lead name constraint      "a", "B>=1", " a"
\*   blank             lead                      "", " "
\*   comment           '# c'
\*   indented_comment  ' # c'
\*   inline_comment    name ' # c'
\*   option            '-r x'
\* The first three are the format `one requirement per line, blank lines and
\* lines starting with # ignored`.
ReqNames == { <<97>>, <<66>> }
Constraints == { <<>>, <<61, 61, 49>>, <<32, 62, 61, 50>> }
Leads == { <<>>, <<32>> }
ReqEntries ==
    { [kind |-> "req", lead |-> <<>>, name |-> n, constraint |-> c] : n \in ReqNames, c \in Constraints }
    \cup { [kind |-> "req", lead |-> <<32>>, name |-> <<97>>, constraint |-> <<>>] }
    \cup { [kind |-> "blank", lead |-> l, name |-> <<>>, constraint |-> <<>>] : l \in Leads }
    \cup { [kind |-> "comment", lead |-> <<>>, name |-> <<>>, constraint |-> <<>>] }
    \cup { [kind |-> "indented_comment", lead |-> <<32>>, name |-> <<>>, constraint |-> <<>>] }
    \cup { [kind |-> "inline_comment", lead |-> <<>>, name |-> <<97>>, constraint |-> <<>>] }
    \cup { [kind |-> "option", lead |-> <<>>, name |-> <<>>, constraint |-> <<>>] }

\* the line of the file an entry stands for, with its newline
Line(e) ==
    CASE e.kind = "req" -> e.lead \o e.name \o e.constraint \o <<10>>
      [] e.kind = "blank" -> e.lead \o <<10>>
      [] e.kind = "comment" -> <<35, 32, 99, 10>>
      [] e.kind = "indented_comment" -> e.lead \o <<35, 32, 99, 10>>
      [] e.kind = "inline_comment" -> e.name \o <<32, 35, 32, 99, 10>>
      [] OTHER -> <<45, 114, 32, 120, 10>>

FileOf(entries) == [readable |-> TRUE, lines |-> [i \in 1..Len(entries) |-> Line(entries[i])]]

\* the requirements files main() is run with: "a" / "# c", "B>=1" / " # c"
MainEntries ==
    { << [kind |-> "req", lead |-> <<>>, name |-> <<97>>, constraint |-> <<>>] >>,
      << [kind |-> "comment", lead |-> <<>>, name |-> <<>>, constraint |-> <<>>],
         [kind |-> "req", lead |-> <<>>, name |-> <<66>>, constraint |-> <<32, 62, 61, 50>>] >>,
      << [kind |-> "indented_comment", lead |-> <<32>>, name |-> <<>>, constraint |-> <<>>] >> }

\* main: find_requirements_files and the file prompt
FindRequirements ==
    /\ pc = "find_requirements"
    /\ \/ \* no requirements file in the directory, or the prompt was aborted
          /\ pc' = "exit"
          /\ UNCHANGED << requirements_file, req_entries >>
       \/ \E entries \in MainEntries, readable \in BOOLEAN :
          /\ requirements_file' = [FileOf(entries) EXCEPT !.readable = readable]
          /\ req_entries' = entries
          /\ pc' = "list_call"
    /\ UNCHANGED << scope, site, required_names, inflight, packages, outdated, table, action >>
    /\ UNCHANGED << poolVars, batchVars >>
    /\ UNCHANGED fetches

\* -------------------------------------------------------------- inventory
\* get_all_packages: run_pip_command(['list'], ...) starts the child
ListCall ==
    /\ pc = "list_call"
    /\ inflight' = inflight + 1
    /\ pc' = "list_wait"
    /\ UNCHANGED << scope, site, requirements_file, required_names, packages, outdated, table, action >>
    /\ UNCHANGED << poolVars, batchVars >>
    /\ UNCHANGED histVars

\* get_all_packages up to the call of get_package_descriptions_parallel:
\* the list decoded, [] when there is no output or it does not decode
ListedPackages(o) ==
    LET output == run_pip_command(o) IN
    IF output.raised THEN output
    ELSE IF (~output.none) /\ ~output.value.empty
         THEN LET decoded == JsonLoads(output.value)
              IN  IF decoded.raised THEN ReturnNone ELSE decoded
         ELSE ReturnNone

\* the child exits; on a decoded list the pool is created
ListReturn ==
    /\ pc = "list_wait"
    /\ inflight' = inflight - 1
    /\ \E o \in ListOutcomes(site) :
        LET listed == ListedPackages(o) IN
        IF listed.raised
        THEN /\ pc' = "crash"
             /\ UNCHANGED << packages, max_workers >>
        ELSE IF listed.none
        THEN /\ pc' = "outdated_call"
             /\ packages' = <<>>
             /\ UNCHANGED max_workers
        ELSE /\ pc' = "fetch"
             /\ packages' = listed.value
             /\ \E limit \in WorkerLimits : max_workers' = limit
    /\ UNCHANGED << scope, site, requirements_file, required_names, outdated, table, action >>
    /\ UNCHANGED << threads, futures, descriptions, returned, batchVars >>
    /\ UNCHANGED histVars

\* ------------------------------------------------------------------- pool
Running == { i \in 1..Len(futures) : futures[i].state = "RUNNING" }
Pending == { i \in 1..Len(futures) : futures[i].state = "PENDING" }

\* the names of a list, each once, in order of first occurrence
RECURSIVE Distinct(_)
Distinct(names) ==
    IF names = <<>> THEN <<>>
    ELSE LET front == Distinct(SubSeq(names, 1, Len(names) - 1))
         IN  IF names[Len(names)] \in Range(front) THEN front ELSE Append(front, names[Len(names)])

\* a submission keyed by name: one fetch per distinct name
ToSubmitDistinct(list) == Distinct([i \in 1..Len(list) |-> list[i].name])

\* the names a fetch is submitted for: package['name'] for package in packages
ToSubmit(list) == [i \in 1..Len(list) |-> list[i].name]

\* a pool that starts a thread for every work item
CanSpawnAlways(n, limit) == TRUE

\* ThreadPoolExecutor._adjust_thread_count: a thread is started only below the limit
CanSpawn(n, limit) == n < limit

\* executor.submit(get_package_description, package['name'])
Submit ==
    /\ pc = "fetch"
    /\ Len(futures) < Len(ToSubmit(packages))
    /\ futures' = Append(futures, [name |-> ToSubmit(packages)[Len(futures) + 1], state |-> "PENDING",
                                   result |-> ReturnNone, yielded |-> FALSE])
    /\ \E spawn \in BOOLEAN :
        /\ spawn => CanSpawn(threads, max_workers)
        /\ ~spawn => (~CanSpawn(threads, max_workers)
                        \/ threads > Cardinality(Running) + Cardinality(Pending))
        /\ threads' = IF spawn THEN threads + 1 ELSE threads
    /\ UNCHANGED << pc, scope, site, requirements_file, required_names, inflight, packages, outdated,
                    table, action, max_workers, descriptions, returned, batchVars >>
    /\ UNCHANGED histVars

\* a worker thread that is free takes the oldest queued work item
WorkerStart(i) ==
    /\ i \in Pending
    /\ \A j \in Pending : i <= j
    /\ Cardinality(Running) < threads
    /\ futures' = [futures EXCEPT ![i].state = "RUNNING"]
    /\ UNCHANGED << pc, scope, site, requirements_file, required_names, inflight, packages, outdated,
                    table, action, max_workers, threads, descriptions, returned, batchVars >>
    /\ fetches' = fetches + 1
    /\ UNCHANGED req_entries

\* the worker's call of get_package_description ends: the future is set
WorkerFinish(i) ==
    /\ i \in Running
    /\ \E o \in ShowOutcomes :
        futures' = [futures EXCEPT ![i].state = "FINISHED", ![i].result = get_package_description(o)]
    /\ UNCHANGED << pc, scope, site, requirements_file, required_names, inflight, packages, outdated,
                    table, action, max_workers, threads, descriptions, returned, batchVars >>
    /\ UNCHANGED histVars

\* a loop body that drops the name when the fetch raised
RecordResultUnlessRaised(map, future) ==
    IF future.result.raised THEN map ELSE (future.name :> future.result.value) @@ map

\* the body of the as_completed loop for one future
RecordResult(map, future) ==
    (future.name :> (IF future.result.raised THEN Sentinel ELSE future.result.value)) @@ map

\* as_completed yields a finished future once all are submitted
AsCompleted(i) ==
    /\ pc = "fetch"
    /\ Len(futures) = Len(ToSubmit(packages))
    /\ i \in 1..Len(futures)
    /\ futures[i].state = "FINISHED"
    /\ ~futures[i].yielded
    /\ futures' = [futures EXCEPT ![i].yielded = TRUE]
    /\ descriptions' = RecordResult(descriptions, futures[i])
    /\ UNCHANGED << pc, scope, site, requirements_file, required_names, inflight, packages, outdated,
                    table, action, max_workers, threads, returned, batchVars >>
    /\ UNCHANGED histVars

\* the loop ends, the with block shuts the pool down, descriptions is returned
ReturnDescriptions ==
    /\ pc = "fetch"
    /\ Len(futures) = Len(ToSubmit(packages))
    /\ \A i \in 1..Len(futures) : futures[i].yielded
    /\ returned' = { descriptions }
    /\ descriptions' = EmptyMap
    /\ futures' = <<>>
    /\ threads' = 0
    /\ max_workers' = 0
    /\ pc' = "merge"
    /\ UNCHANGED << scope, site, requirements_file, required_names, inflight, packages, outdated,
                    table, action, batchVars >>
    /\ UNCHANGED histVars

\* descriptions.get(package['name'], "No description available")
WithDescription(pkg, map) ==
    [k \in DOMAIN pkg \cup { "description" } |->
        IF k = "description"
        THEN (IF pkg.name \in DOMAIN map THEN map[pkg.name] ELSE Sentinel)
        ELSE pkg[k]]

\* get_all_packages: the descriptions are merged into the records
Merge ==
    /\ pc = "merge"
    /\ \E map \in returned :
        packages' = [i \in 1..Len(packages) |-> WithDescription(packages[i], map)]
    /\ returned' = {}
    /\ pc' = "outdated_call"
    /\ UNCHANGED << scope, site, requirements_file, required_names, inflight, outdated, table, action >>
    /\ UNCHANGED << max_workers, threads, futures, descriptions, batchVars >>
    /\ UNCHANGED histVars

\* get_outdated_packages: run_pip_command(['list', '--outdated'], ...) starts
OutdatedCall ==
    /\ pc = "outdated_call"
    /\ inflight' = inflight + 1
    /\ pc' = "outdated_wait"
    /\ UNCHANGED << scope, site, requirements_file, required_names, packages, outdated, table, action >>
    /\ UNCHANGED << poolVars, batchVars >>
    /\ UNCHANGED histVars

\* get_outdated_packages: the list decoded, [] on no output or a decode error
get_outdated_packages(o) ==
    LET output == run_pip_command(o) IN
    IF output.raised THEN output
    ELSE IF (~output.none) /\ ~output.value.empty
         THEN LET decoded == JsonLoads(output.value)
              IN  IF decoded.raised THEN Return(<<>>) ELSE decoded
         ELSE Return(<<>>)

OutdatedReturn ==
    /\ pc = "outdated_wait"
    /\ inflight' = inflight - 1
    /\ \E o \in OutdatedOutcomes(site) :
        LET got == get_outdated_packages(o) IN
        IF got.raised
        THEN pc' = "crash" /\ UNCHANGED outdated
        ELSE pc' = "check" /\ outdated' = got.value
    /\ UNCHANGED << scope, site, requirements_file, required_names, packages, table, action >>
    /\ UNCHANGED << poolVars, batchVars >>
    /\ UNCHANGED histVars

\* check_global_packages after the listings: None when nothing is installed
CheckGlobal ==
    /\ pc = "check"
    /\ scope = "Global Libraries"
    /\ pc' = IF packages = <<>> THEN "exit" ELSE "display"
    /\ UNCHANGED << scope, site, requirements_file, required_names, inflight, packages, outdated,
                    table, action >>
    /\ UNCHANGED << poolVars, batchVars >>
    /\ UNCHANGED histVars

\* check_project_packages: the requirements are parsed (the file is read
\* before the listings, which do not depend on it) and both lists filtered;
\* None when no installed package is required
CheckProject ==
    /\ pc = "check"
    /\ scope = "Project Libraries"
    /\ LET names == RequiredNames(parse_requirements_file(requirements_file))
           project_packages == FilterRequired(packages, names)
           project_outdated == FilterRequired(outdated, names)
       IN  /\ required_names' = names
           /\ IF project_packages = <<>>
              THEN pc' = "exit" /\ UNCHANGED << packages, outdated >>
              ELSE pc' = "display" /\ packages' = project_packages /\ outdated' = project_outdated
    /\ UNCHANGED << scope, site, requirements_file, inflight, table, action >>
    /\ UNCHANGED << poolVars, batchVars >>
    /\ UNCHANGED histVars

\* display_version_table(console, all_packages, outdated_map)
DisplayVersionTable ==
    /\ pc = "display"
    /\ table' = display_version_table(packages, OutdatedMap(outdated))
    /\ pc' = "action"
    /\ UNCHANGED << scope, site, requirements_file, required_names, inflight, packages, outdated, action >>
    /\ UNCHANGED << poolVars, batchVars >>
    /\ UNCHANGED histVars

\* main: the action prompt
ChooseAction ==
    /\ pc = "action"
    /\ \E answer \in { "Update all packages", "Create backup only", "Restore from backup", "Exit", "aborted" } :
        /\ action' = answer
        /\ pc' = CASE answer \in { "Update all packages", "Create backup only" } -> "backup"
                   [] answer = "Restore from backup" -> "list_backups"
                   [] OTHER -> "exit"
    /\ UNCHANGED << scope, site, requirements_file, required_names, inflight, packages, outdated, table >>
    /\ UNCHANGED << poolVars, batchVars >>
    /\ UNCHANGED histVars

\* ----------------------------------------------------------------- backup
\* the file create_backup leaves under package_backups/ at time t
WriteBackup(files, t, list) == (t :> JsonDump(list)) @@ files

\* an update that does not look at the result of create_backup
BackupMadeAlways(file) == TRUE

\* main goes on to update_packages only `if backup_file:`
BackupMade(file) == ~file.none

\* create_backup(all_packages), and main's branch on its result
\*   ok:          the file is written and its path returned
\*   open_error:  open() raises IOError: None
\*   write_error: the write raises IOError after open() created the file: None
\*   mkdir_error: os.makedirs raises, outside the try
CreateBackup ==
    /\ pc = "backup"
    /\ \E t \in 1..MaxTime, io \in { "ok", "open_error", "write_error", "mkdir_error" } :
        LET result == IF packages # <<>> /\ io = "ok" THEN Return(t) ELSE ReturnNone IN
        IF io = "mkdir_error"
        THEN /\ pc' = "crash"
             /\ UNCHANGED << disk, written, backup_file, idx >>
        ELSE /\ backup_file' = result
             /\ disk' = CASE packages # <<>> /\ io = "ok" -> WriteBackup(disk, t, packages)
                          [] packages # <<>> /\ io = "write_error" -> (t :> Malformed) @@ disk
                          [] OTHER -> disk
             /\ written' = CASE packages # <<>> /\ io = "ok" -> (t :> packages) @@ written
                             [] packages # <<>> /\ io = "write_error" ->
                                    [f \in DOMAIN written \ { t } |-> written[f]]
                             [] OTHER -> written
             /\ IF action = "Update all packages" /\ BackupMade(result)
                THEN pc' = "update" /\ idx' = 1
                ELSE pc' = "exit" /\ UNCHANGED idx
    /\ UNCHANGED << scope, site, requirements_file, required_names, inflight, packages, outdated,
                    table, action, poolVars, requests, chosen, restored, restore_result >>
    /\ UNCHANGED histVars

\* ----------------------------------------------------------------- update
\* the command line of update_packages for one entry
UpdateRequest(pkg, global_packages) ==
    [command |-> << "install", "--upgrade" >>, user |-> ~global_packages,
     name |-> pkg.name, version |-> pkg.latest_version]

\* update_packages: run_pip_command(['install', '--upgrade'], ...) starts
UpdateCall ==
    /\ pc = "update"
    /\ idx <= Len(outdated)
    /\ requests' = Append(requests, UpdateRequest(outdated[idx], scope = "Global Libraries"))
    /\ inflight' = inflight + 1
    /\ pc' = "update_wait"
    /\ UNCHANGED << scope, site, requirements_file, required_names, packages, outdated, table, action,
                    poolVars, disk, written, backup_file, idx, chosen, restored, restore_result >>
    /\ UNCHANGED histVars

\* the child exits: None (a failure) and a result both go on to the next entry
UpdateReturn ==
    /\ pc = "update_wait"
    /\ inflight' = inflight - 1
    /\ \E o \in InstallOutcomes :
        IF run_pip_command(o).raised
        THEN pc' = "crash" /\ UNCHANGED idx
        ELSE pc' = "update" /\ idx' = idx + 1
    /\ UNCHANGED << scope, site, requirements_file, required_names, packages, outdated, table, action,
                    poolVars, disk, written, backup_file, requests, chosen, restored, restore_result >>
    /\ UNCHANGED histVars

\* the loop of update_packages is over
UpdateDone ==
    /\ pc = "update"
    /\ idx > Len(outdated)
    /\ pc' = "exit"
    /\ UNCHANGED << scope, site, requirements_file, required_names, inflight, packages, outdated,
                    table, action, poolVars, batchVars >>
    /\ UNCHANGED histVars

\* ---------------------------------------------------------------- restore
\* main: list_backups and the backup prompt
ListBackups ==
    /\ pc = "list_backups"
    /\ \/ \* no backup, or the prompt was aborted
          /\ pc' = "exit"
          /\ UNCHANGED chosen
       \/ \E f \in DOMAIN disk :
          /\ chosen' = Return(f)
          /\ pc' = "restore_read"
    /\ UNCHANGED << scope, site, requirements_file, required_names, inflight, packages, outdated,
                    table, action, poolVars, disk, written, backup_file, requests, idx, restored,
                    restore_result >>
    /\ UNCHANGED histVars

\* restore_packages: the file is read and decoded; False when that fails
RestoreRead ==
    /\ pc = "restore_read"
    /\ \E io \in { "ok", "read_error" } :
        LET decoded == IF io = "ok" THEN JsonLoads(disk[chosen.value]) ELSE Raise("IOError") IN
        IF decoded.raised
        THEN /\ restore_result' = Return(FALSE)
             /\ pc' = "exit"
             /\ UNCHANGED << restored, idx >>
        ELSE /\ restored' = decoded.value
             /\ idx' = 1
             /\ pc' = "restore"
             /\ UNCHANGED restore_result
    /\ UNCHANGED << scope, site, requirements_file, required_names, inflight, packages, outdated,
                    table, action, poolVars, disk, written, backup_file, requests, chosen >>
    /\ UNCHANGED histVars

\* a restore that installs the latest version instead of the recorded one
RestoreRequestUnpinned(pkg) ==
    [command |-> << "install" >>, user |-> FALSE, name |-> pkg.name, version |-> LatestVersion]

\* the command line of restore_packages for one entry: never --user
RestoreRequest(pkg) ==
    [command |-> << "install" >>, user |-> FALSE, name |-> pkg.name, version |-> pkg.version]

\* restore_packages: run_pip_command(['install'], ...) starts
RestoreCall ==
    /\ pc = "restore"
    /\ idx <= Len(restored)
    /\ requests' = Append(requests, RestoreRequest(restored[idx]))
    /\ inflight' = inflight + 1
    /\ pc' = "restore_wait"
    /\ UNCHANGED << scope, site, requirements_file, required_names, packages, outdated, table, action,
                    poolVars, disk, written, backup_file, idx, chosen, restored, restore_result >>
    /\ UNCHANGED histVars

RestoreReturn ==
    /\ pc = "restore_wait"
    /\ inflight' = inflight - 1
    /\ \E o \in InstallOutcomes :
        IF run_pip_command(o).raised
        THEN pc' = "crash" /\ UNCHANGED idx
        ELSE pc' = "restore" /\ idx' = idx + 1
    /\ UNCHANGED << scope, site, requirements_file, required_names, packages, outdated, table, action,
                    poolVars, disk, written, backup_file, requests, chosen, restored, restore_result >>
    /\ UNCHANGED histVars

\* the loop of restore_packages is over: True
RestoreDone ==
    /\ pc = "restore"
    /\ idx > Len(restored)
    /\ restore_result' = Return(TRUE)
    /\ pc' = "exit"
    /\ UNCHANGED << scope, site, requirements_file, required_names, inflight, packages, outdated,
                    table, action, poolVars, disk, written, backup_file, requests, idx, chosen, restored >>
    /\ UNCHANGED histVars

\* --------------------------------------------------------- specifications
NoFiles == [f \in {} |-> EmptyText]

\* a record as get_all_packages returns it
Enriched(names, descs) ==
    { [name |-> n, version |-> v, description |-> d] : n \in names, v \in Versions, d \in descs }

NoRecords == [f \in {} |-> <<>>]

\* the backups earlier runs may have left for a run of main(): none, one
\* written by create_backup from the records it was given, or a damaged one
EarlierBackups ==
    { [files |-> NoFiles, records |-> NoRecords],
      [files |-> (1 :> Malformed), records |-> NoRecords] }
    \cup { [files |-> WriteBackup(NoFiles, 1, << r >>), records |-> (1 :> << r >>)] :
            r \in Enriched({ <<97>> }, { Sentinel }) }

Start(files) ==
    /\ scope = "aborted"
    /\ requirements_file = NoFile
    /\ required_names = {}
    /\ inflight = 0
    /\ packages = <<>>
    /\ max_workers = 0
    /\ threads = 0
    /\ futures = <<>>
    /\ descriptions = EmptyMap
    /\ returned = {}
    /\ outdated = <<>>
    /\ table = <<>>
    /\ action = "aborted"
    /\ disk = files
    /\ backup_file = ReturnNone
    /\ requests = <<>>
    /\ idx = 0
    /\ chosen = ReturnNone
    /\ restored = <<>>
    /\ restore_result = ReturnNone
    /\ fetches = 0
    /\ req_entries = <<>>

\* main() is started in some site, with the backups of earlier runs
Init ==
    /\ pc = "scope"
    /\ site \in SiteLists
    /\ \E earlier \in EarlierBackups : Start(earlier.files) /\ written = earlier.records

Next ==
    \/ AskScope
    \/ FindRequirements
    \/ ListCall
    \/ ListReturn
    \/ Submit
    \/ \E i \in 1..Len(futures) : WorkerStart(i)
    \/ \E i \in 1..Len(futures) : WorkerFinish(i)
    \/ \E i \in 1..Len(futures) : AsCompleted(i)
    \/ ReturnDescriptions
    \/ Merge
    \/ OutdatedCall
    \/ OutdatedReturn
    \/ CheckGlobal
    \/ CheckProject
    \/ DisplayVersionTable
    \/ ChooseAction
    \/ CreateBackup
    \/ UpdateCall
    \/ UpdateReturn
    \/ UpdateDone
    \/ ListBackups
    \/ RestoreRead
    \/ RestoreCall
    \/ RestoreReturn
    \/ RestoreDone

Spec == Init /\ [][Next]_vars

\* ---------------------------------------------- restore_packages on backups
SnapshotVersions == { "1.0", "2.0" }
\* the records create_backup may have been given: any description
SnapshotRecords ==
    { [name |-> n, version |-> v, description |-> d] :
        n \in PkgNames, v \in SnapshotVersions, d \in Summaries \cup { Sentinel } }
SnapshotLists == SeqsUpTo(SnapshotRecords, MaxPkgs) \ { <<>> }

\* the state main() is in once the table is shown, for the packages listed
Shown(list, old) ==
    /\ required_names = {}
    /\ inflight = 0
    /\ site = [i \in 1..Len(list) |-> [name |-> list[i].name, version |-> list[i].version]]
    /\ packages = list
    /\ outdated = old
    /\ max_workers = 0
    /\ threads = 0
    /\ futures = <<>>
    /\ descriptions = EmptyMap
    /\ returned = {}
    /\ fetches = Len(list)
    /\ backup_file = ReturnNone
    /\ requests = <<>>
    /\ idx = 0
    /\ chosen = ReturnNone
    /\ restored = <<>>
    /\ restore_result = ReturnNone

\* 'Restore from backup' was chosen; package_backups/ holds a file that
\* create_backup wrote from some records, or a damaged one
InitRestore ==
    /\ pc = "list_backups"
    /\ action = "Restore from backup"
    /\ scope = "Global Libraries"
    /\ requirements_file = NoFile
    /\ req_entries = <<>>
    /\ LET list == << [name |-> <<97>>, version |-> "1.0", description |-> Sentinel] >>
       IN  Shown(list, <<>>) /\ table = display_version_table(list, OutdatedMap(<<>>))
    /\ \E t \in 1..MaxTime :
        \/ \E records \in SnapshotLists :
            disk = WriteBackup(NoFiles, t, records) /\ written = (t :> records)
        \/ disk = (t :> Malformed) /\ written = NoRecords

NextRestore ==
    \/ ListBackups
    \/ RestoreRead
    \/ RestoreCall
    \/ RestoreReturn
    \/ RestoreDone

SpecRestore == InitRestore /\ [][NextRestore]_vars

\* ------------------------------------------ check_project_packages on files
\* longest requirements file
MaxLines == 2
\* "A", "B", "c": installed names; "A" is required as "a", "c" never
InstalledNames == { <<65>>, <<66>>, <<99>> }
InstalledLists ==
    SeqsUpTo({ [name |-> n, version |-> v, description |-> Sentinel] : n \in InstalledNames, v \in Versions },
             MaxPkgs)

\* get_all_packages and get_outdated_packages have returned; the file chosen
\* is any file of at most MaxLines entries
InitProject ==
    /\ pc = "check"
    /\ action = "aborted"
    /\ table = <<>>
    /\ disk = NoFiles
    /\ written = NoRecords
    /\ \E list \in InstalledLists :
        \E old \in { <<>>, [i \in 1..Len(list) |-> AsOutdated(list[i])] } : Shown(list, old)
    /\ \E entries \in SeqsUpTo(ReqEntries, MaxLines) :
        /\ scope = "Project Libraries"
        /\ requirements_file = FileOf(entries)
        /\ req_entries = entries

NextProject ==
    \/ CheckProject
    \/ DisplayVersionTable

SpecProject == InitProject /\ [][NextProject]_vars

\* ------------------------------------------- display_version_table on lists
\* longest list shown in a table
MaxRows == 3
\* "a", "A", "B", "b", "ab"
TableNames == { <<97>>, <<65>>, <<66>>, <<98>>, <<97, 98>> }
TableLists ==
    SeqsUpTo({ [name |-> n, version |-> v, description |-> d] :
                 n \in TableNames, v \in Versions, d \in Summaries }, MaxRows) \ { <<>> }
TableOutdated ==
    SeqsUpTo({ AsOutdated([name |-> n, version |-> v]) : n \in TableNames, v \in Versions }, MaxPkgs)

\* the listings have returned a non-empty list and any outdated list
InitTable ==
    /\ pc = "display"
    /\ action = "aborted"
    /\ scope = "Global Libraries"
    /\ requirements_file = NoFile
    /\ req_entries = <<>>
    /\ table = <<>>
    /\ disk = NoFiles
    /\ written = NoRecords
    /\ \E list \in TableLists, old \in TableOutdated : Shown(list, old)

NextTable == DisplayVersionTable

SpecTable == InitTable /\ [][NextTable]_vars

\* ----------------------------------------------------------------- claims
Names(list) == { list[i].name : i \in 1..Len(list) }
DescriptionTexts == Summaries \cup { Sentinel }
AllYielded ==
    /\ pc = "fetch"
    /\ Len(futures) = Len(packages)
    /\ \A i \in 1..Len(futures) : futures[i].yielded

\* C1: when get_package_descriptions_parallel returns, the keys of the mapping
\* are exactly the distinct input names and every value is a description a
\* fetch of that name produced or the sentinel; before every future has been
\* collected nothing is returned.
C1_MappingComplete ==
    /\ \A map \in returned :
        /\ DOMAIN map = Names(packages)
        /\ \A n \in DOMAIN map : map[n] \in DescriptionTexts
    /\ returned # {} => pc = "merge"
    /\ AllYielded =>
        /\ DOMAIN descriptions = Names(packages)
        /\ \A n \in DOMAIN descriptions :
            \E i \in 1..Len(futures) :
                /\ futures[i].name = n
                /\ descriptions[n] = IF futures[i].result.raised THEN Sentinel ELSE futures[i].result.value

\* a list with a repeated name was fetched, a fetch failed, one key came back
C1_Witness ==
    /\ pc = "merge"
    /\ Len(packages) = 2
    /\ packages[1].name = packages[2].name
    /\ \E map \in returned : DOMAIN map = { packages[1].name } /\ map[packages[1].name] = Sentinel

\* C2: get_package_description never raises: whatever pip show does, the
\* call ends with a string, the summary text or the sentinel.
C2_NeverRaises ==
    \A i \in 1..Len(futures) :
        futures[i].state = "FINISHED" =>
            /\ ~futures[i].result.raised
            /\ futures[i].result.value \in DescriptionTexts

\* C8: one fetch per distinct name: when the descriptions are returned, the
\* number of get_package_description calls made equals the number of
\* distinct names of the list.
C8_OneFetchPerDistinctName == pc = "merge" => fetches = Cardinality(Names(packages))

\* C8, amended: one fetch per record of the list, repeated names included.
C8_OneFetchPerRecord == pc = "merge" => fetches = Len(packages)

\* a list that names one package twice has been fetched
C8_Witness ==
    /\ pc = "merge"
    /\ Len(packages) = 2
    /\ packages[1].name = packages[2].name
    /\ fetches = 2

\* C9: during the description fetch at most max_workers pip invocations run
\* at once; outside it at most one does.
C9_BoundedParallelism ==
    /\ pc = "fetch" => inflight + Cardinality(Running) <= max_workers
    /\ pc # "fetch" => inflight + Cardinality(Running) <= 1

\* the pool is saturated: max_workers fetches run while another waits
C9_Witness ==
    /\ pc = "fetch"
    /\ Cardinality(Running) = max_workers
    /\ Pending # {}

Upgrades == { i \in 1..Len(requests) : requests[i].command = << "install", "--upgrade" >> }

\* C10: no pip install --upgrade is issued unless create_backup has, in this
\* run, written the snapshot of all listed packages and returned its path.
C10_BackupPrecedesUpdate ==
    Upgrades # {} =>
        /\ ~backup_file.none
        /\ backup_file.value \in DOMAIN disk
        /\ disk[backup_file.value] = JsonDump(packages)

\* an upgrade was issued after a backup
C10_Witness == Upgrades # {} /\ pc = "exit" /\ ~backup_file.none

\* C6: a failed install does not abort the batch: once update_packages or
\* restore_packages has started its loop, main() does not end before an
\* install was attempted for every entry, in order, and restore_packages
\* returned True.
C6_BatchCompletes ==
    (pc \in { "exit", "crash" } /\ idx >= 1) =>
        IF action = "Update all packages"
        THEN requests = [i \in 1..Len(outdated) |-> UpdateRequest(outdated[i], scope = "Global Libraries")]
        ELSE /\ requests = [i \in 1..Len(restored) |-> RestoreRequest(restored[i])]
             /\ ~restore_result.none
             /\ restore_result.value = TRUE

\* C7: the file create_backup writes holds objects with the keys name and
\* version only.
C7_NameAndVersionOnly ==
    (~backup_file.none) =>
        LET text == disk[backup_file.value] IN
        \A i \in 1..Len(text.objs) :
            { text.objs[i][j][1] : j \in 1..Len(text.objs[i]) } = { "name", "version" }

Pairs(list) == [i \in 1..Len(list) |-> << list[i].name, list[i].version >>]
IsPrefix(s, t) == Len(s) <= Len(t) /\ s = SubSeq(t, 1, Len(s))

\* C3: restore_packages on a file create_backup wrote issues plain installs
\* for exactly the name and version pairs of the records backed up, one per
\* record and in their order: never another request, and all of them once
\* it has returned True.
C3_RoundTrip ==
    ((~chosen.none) /\ chosen.value \in DOMAIN written) =>
        LET records == written[chosen.value] IN
        /\ \A i \in 1..Len(requests) : requests[i].command = << "install" >>
        /\ IsPrefix(Pairs(requests), Pairs(records))
        /\ ((~restore_result.none) /\ restore_result.value = TRUE) => Pairs(requests) = Pairs(records)

\* two records that differ in version and description were restored
C3_Witness ==
    /\ pc = "exit"
    /\ ~chosen.none
    /\ chosen.value \in DOMAIN written
    /\ ~restore_result.none
    /\ restore_result.value = TRUE
    /\ Len(requests) = 2
    /\ requests[1].version # requests[2].version
    /\ written[chosen.value][1].description # written[chosen.value][2].description

\* the names the requirements file was written with
FileNames == { req_entries[i].name : i \in { j \in 1..Len(req_entries) : req_entries[j].kind = "req" } }
\* a package name is in the file, letter case aside
InFile(n) == \E m \in FileNames : Lower(m) = Lower(n)
\* the file has the format: requirements, blank lines, lines starting with #
WellFormedFile == \A i \in 1..Len(req_entries) : req_entries[i].kind \in { "req", "blank", "comment" }
\* what check_project_packages returned (None: nothing)
ProjectPackages == IF pc = "exit" THEN <<>> ELSE packages

\* C4: after check_project_packages no package whose name is not in the
\* requirements file is returned or shown in the table; and for a file of the
\* stated format every installed package whose name is in the file is
\* returned and shown, whatever its constraint.
C4_RequirementsFilter ==
    pc \in { "display", "action", "exit" } =>
        /\ \A i \in 1..Len(ProjectPackages) : InFile(ProjectPackages[i].name)
        /\ \A i \in 1..Len(table) : InFile(table[i].name)
        /\ WellFormedFile =>
            \A i \in 1..Len(site) :
                InFile(site[i].name) =>
                    /\ \E j \in 1..Len(ProjectPackages) :
                        /\ ProjectPackages[j].name = site[i].name
                        /\ ProjectPackages[j].version = site[i].version
                    /\ pc = "action" => \E j \in 1..Len(table) : table[j].name = site[i].name

\* a file with a comment and a requirement whose constraint the installed
\* version does not meet; one installed package is shown, one is left out
C4_Witness ==
    /\ pc = "action"
    /\ WellFormedFile
    /\ \E i \in 1..Len(req_entries) : req_entries[i].kind = "comment"
    /\ \E i \in 1..Len(req_entries) :
        /\ req_entries[i].kind = "req"
        /\ req_entries[i].constraint = <<32, 62, 61, 50>>
        /\ \E j \in 1..Len(table) : Lower(table[j].name) = Lower(req_entries[i].name)
    /\ \E i \in 1..Len(site) : ~InFile(site[i].name)
    /\ Len(table) = 1

IsOutdatedName(n) == n \in Names(outdated)

\* C5: the table has one row per package; every row of an outdated package
\* comes before every row of a current one; within each group the rows are in
\* non-decreasing order of lower-cased name.
C5_TableOrder ==
    (pc = "action" /\ packages # <<>>) =>
        /\ Len(table) = Len(packages)
        /\ \A n \in Names(packages) :
            Cardinality({ i \in 1..Len(table) : table[i].name = n })
                = Cardinality({ i \in 1..Len(packages) : packages[i].name = n })
        /\ \A i \in 1..Len(table) :
            table[i].status = IF IsOutdatedName(table[i].name) THEN "Outdated" ELSE "Up to date"
        /\ \A i \in 1..Len(table) : \A j \in (i + 1)..Len(table) :
            /\ IsOutdatedName(table[j].name) => IsOutdatedName(table[i].name)
            /\ (IsOutdatedName(table[i].name) <=> IsOutdatedName(table[j].name))
                => ~StrLess(Lower(table[j].name), Lower(table[i].name))

\* a table with an outdated and a current row whose input was not in order
C5_Witness ==
    /\ pc = "action"
    /\ Len(table) = 3
    /\ \E i \in 1..Len(table) : IsOutdatedName(table[i].name)
    /\ \E i \in 1..Len(table) : ~IsOutdatedName(table[i].name)
    /\ [i \in 1..Len(table) |-> table[i].name] # [i \in 1..Len(packages) |-> packages[i].name]
    /\ \E i \in 1..2 : table[i].name # table[i + 1].name /\ Lower(table[i].name) = Lower(table[i + 1].name)

====
